---- MODULE Spec2Model ----
(***************************************************************************)
(* A model of sccourses.py: the Seattle Colleges course catalog crawler.   *)
(*                                                                         *)
(* Strings are sequences of character codes, so that comparison, case      *)
(* conversion and the character classes of the regular expressions are     *)
(* computed rather than assumed.                                           *)
(***************************************************************************)
EXTENDS Integers, Sequences, FiniteSets, TLC

(***************************************************************************)
(* Characters and strings                                                  *)
(***************************************************************************)

\* The printable ASCII characters in code order: Printable[i] has code 31 + i
\* (code 96, the grave accent, is spelled out: it cannot be written as a literal).
Printable ==
  << " ", "!", "\"", "#", "$", "%", "&", "'", "(", ")", "*", "+", ",", "-", ".", "/",
     "0", "1", "2", "3", "4", "5", "6", "7", "8", "9", ":", ";", "<", "=", ">", "?",
     "@", "A", "B", "C", "D", "E", "F", "G", "H", "I", "J", "K", "L", "M", "N", "O",
     "P", "Q", "R", "S", "T", "U", "V", "W", "X", "Y", "Z", "[", "\\", "]", "^", "_",
     "grave", "a", "b", "c", "d", "e", "f", "g", "h", "i", "j", "k", "l", "m", "n", "o",
     "p", "q", "r", "s", "t", "u", "v", "w", "x", "y", "z", "{", "|", "}", "~" >>

\* ord(c) for a printable character c.
Ord(c) == 31 + (CHOOSE ii \in DOMAIN Printable : Printable[ii] = c)

\* A string literal, written as a tuple of characters.
RECURSIVE Str(_)
Str(t) == IF t = <<>> THEN <<>> ELSE <<Ord(Head(t))>> \o Str(Tail(t))

IsSpace(c) == c = Ord(" ")
IsDigit(c) == c >= Ord("0") /\ c <= Ord("9")
IsUpper(c) == c >= Ord("A") /\ c <= Ord("Z")
IsLower(c) == c >= Ord("a") /\ c <= Ord("z")
\* The character class [A-Za-z&].
IsAlphaAmp(c) == IsUpper(c) \/ IsLower(c) \/ c = Ord("&")
\* The character class [A-Z&].
IsUpperAmp(c) == IsUpper(c) \/ c = Ord("&")

\* s[from:] (1-based, inclusive).
Tail_(s, from) == SubSeq(s, from, Len(s))

\* s.startswith(p)
StartsWith(s, p) == Len(p) <= Len(s) /\ SubSeq(s, 1, Len(p)) = p

\* The least index >= from at which p occurs in s, or 0 (str.find, 1-based).
Find(s, p, from) ==
  LET hits == {ii \in from .. (Len(s) - Len(p) + 1) : SubSeq(s, ii, ii + Len(p) - 1) = p}
  IN  IF hits = {} THEN 0 ELSE CHOOSE ii \in hits : \A j \in hits : ii <= j

\* p in s
Contains(s, p) == Find(s, p, 1) # 0

\* s.split(sep), for a non-empty separator.
RECURSIVE Split(_, _)
Split(s, sep) ==
  LET at == Find(s, sep, 1)
  IN  IF at = 0 THEN <<s>>
      ELSE <<SubSeq(s, 1, at - 1)>> \o Split(Tail_(s, at + Len(sep)), sep)

\* s.replace(old, new), for a non-empty old: every non-overlapping occurrence,
\* left to right.
RECURSIVE Replace(_, _, _)
Replace(s, old, new) ==
  LET at == Find(s, old, 1)
  IN  IF at = 0 THEN s
      ELSE SubSeq(s, 1, at - 1) \o new \o Replace(Tail_(s, at + Len(old)), old, new)

\* s.upper()
Upper(s) == [ii \in DOMAIN s |-> IF IsLower(s[ii]) THEN s[ii] - 32 ELSE s[ii]]

\* s.strip()
Strip(s) ==
  LET keep == {ii \in DOMAIN s : ~IsSpace(s[ii])}
  IN  IF keep = {} THEN <<>>
      ELSE SubSeq(s, CHOOSE ii \in keep : \A j \in keep : ii <= j,
                     CHOOSE ii \in keep : \A j \in keep : ii >= j)

\* s.isdigit()
IsDigitStr(s) == Len(s) > 0 /\ \A ii \in DOMAIN s : IsDigit(s[ii])

\* a < b for sequences of integers, and so for strings: at the first index
\* where they differ the smaller element decides, and a proper prefix is
\* smaller.
SeqLess(a, b) ==
  \E ii \in 1 .. (Len(b)) :
    /\ \A j \in 1 .. (ii - 1) : j <= Len(a) /\ a[j] = b[j]
    /\ ii - 1 <= Len(a)
    /\ (ii > Len(a) \/ a[ii] < b[ii])

\* sorted(l) for a list of strings (a stable insertion into sorted order).
RECURSIVE SortedStrs(_)
SortedStrs(l) ==
  IF l = <<>> THEN <<>>
  ELSE LET rest == SortedStrs(SubSeq(l, 1, Len(l) - 1))
           x    == l[Len(l)]
           \* x goes after every element that is not greater than it
           n    == Cardinality({ii \in DOMAIN rest : ~SeqLess(x, rest[ii])})
       IN  SubSeq(rest, 1, n) \o <<x>> \o SubSeq(rest, n + 1, Len(rest))

(***************************************************************************)
(* parse_prerequisites                                                     *)
(***************************************************************************)

\* The outcome of a call: a returned value, or the exception it raised.
Returned(v) == [exc |-> "none", val |-> v]
Raised(e) == [exc |-> e, val |-> <<>>]

\* The character classes of the two patterns, as sets of character codes.
ClassAlphaAmp == {c \in 0 .. 127 : IsAlphaAmp(c)}
ClassUpperAmp == {c \in 0 .. 127 : IsUpperAmp(c)}
ClassSpace == {c \in 0 .. 127 : IsSpace(c)}
ClassDigit == {c \in 0 .. 127 : IsDigit(c)}

\* The first index >= from of s that does not hold a character of the class,
\* Len(s) + 1 when the run reaches the end: where a greedy X* or X+ stops.
RunEnd(s, from, class) ==
  CHOOSE j \in from .. (Len(s) + 1) :
    /\ \A kk \in from .. (j - 1) : s[kk] \in class
    /\ (j = Len(s) + 1 \/ s[j] \notin class)

\* One attempt of the pattern (([A-Za-z&]+) *\d+(?!\.)) at position pos of s:
\* [end |-> the index after the match, dept |-> the index after group 2], or
\* end = 0 when the pattern does not match at pos. The three runs are greedy.
\* Giving back a letter or a space leaves a letter or a space where a digit
\* is needed, so only the digit run can backtrack: when a '.' follows it, it
\* gives back its last digit (what then follows is a digit, not a '.').
PatternAt(s, pos) ==
  LET e1 == RunEnd(s, pos, ClassAlphaAmp)
      e2 == RunEnd(s, e1, ClassSpace)
      e3 == RunEnd(s, e2, ClassDigit)
      dot == e3 <= Len(s) /\ s[e3] = Ord(".")
  IN  IF e1 = pos \/ e3 = e2 THEN [end |-> 0, dept |-> 0]
      ELSE IF ~dot THEN [end |-> e3, dept |-> e1]
      ELSE IF e3 - 1 > e2 THEN [end |-> e3 - 1, dept |-> e1]
      ELSE [end |-> 0, dept |-> 0]

\* p.findall(s) from position pos on: the non-overlapping matches, leftmost
\* first, each as the pair of its groups (i[0] the match, i[1] the letters).
RECURSIVE FindAllFrom(_, _)
FindAllFrom(s, pos) ==
  IF pos > Len(s) THEN <<>>
  ELSE LET m == PatternAt(s, pos)
       IN  IF m.end = 0 THEN FindAllFrom(s, pos + 1)
           ELSE << <<SubSeq(s, pos, m.end - 1), SubSeq(s, pos, m.dept - 1)>> >>
                  \o FindAllFrom(s, m.end)

FindAll(s) == FindAllFrom(s, 1)

\* p.match(s).group(2): the match is anchored at the start of s.
MatchGroup2(s) ==
  LET m == PatternAt(s, 1)
  IN  IF m.end = 0 THEN Raised("AttributeError")
      ELSE Returned(SubSeq(s, 1, m.dept - 1))

\* The phrases of line 92 that name a minimum grade or level, not a course.
NoisePhrases ==
  { Str(<<"a", " ", "2">>), Str(<<"w", "i", "t", "h", " ", "2">>),
    Str(<<"o", "f", " ", "2">>), Str(<<"l", "e", "a", "s", "t", " ", "2">>),
    Str(<<"m", "i", "n", "i", "m", "u", "m", " ", "2">>),
    Str(<<"G", "P", "A", " ", "2">>) }

LevelPrefix == Str(<<"L", "e", "v", "e", "l", " ">>)
AndSp == Str(<<"a", "n", "d", " ">>)
OrSp == Str(<<"o", "r", " ">>)
IntoSp == Str(<<"i", "n", "t", "o", " ">>)
Amp == Str(<<"&">>)
Space == Str(<<" ">>)
Dot == Str(<<".">>)
PrereqMark == Str(<<"P", "r", "e", "r", "e", "q", ":">>)
CoreqsMark == Str(<<"C", "o", "r", "e", "q", "s", ":">>)
\* '%s' of None
NoneStr == Str(<<"N", "o", "n", "e">>)
\* prev_dept before any full reference has been seen
None == <<-1>>

IsNoise(m) == m \in NoisePhrases \/ StartsWith(m, LevelPrefix)

\* The test of lines 96-98, negated: the match continues the previous
\* department instead of naming its own.
IsContinuation(m) ==
  \/ StartsWith(m, Amp)
  \/ StartsWith(m, AndSp)
  \/ StartsWith(m, OrSp)
  \/ StartsWith(m, IntoSp)
  \/ IsDigitStr(m)

\* ContinuationToken with the department left out.
ContinuationToken_NoDept(prev_dept, m) ==
  Replace(Replace(Replace(m, AndSp, <<>>), IntoSp, <<>>), OrSp, <<>>)

\* Lines 104-107: '%s%s' % (prev_dept, the match without its connectives).
ContinuationToken(prev_dept, m) ==
  (IF prev_dept = None THEN NoneStr ELSE prev_dept)
    \o Replace(Replace(Replace(m, AndSp, <<>>), IntoSp, <<>>), OrSp, <<>>)

\* The loop of lines 91-107 over the matches ms, from the state (prerequisites,
\* prev_dept): the list it leaves, or the exception that ends it.
RECURSIVE CollectPrerequisites(_, _, _)
CollectPrerequisites(ms, prerequisites, prev_dept) ==
  IF ms = <<>> THEN Returned(prerequisites)
  ELSE LET ii == ms[1]
           rest == Tail(ms)
       IN  IF IsNoise(ii[1])
             THEN CollectPrerequisites(rest, prerequisites, prev_dept)
           ELSE IF ~IsContinuation(ii[1])
             THEN LET g == MatchGroup2(ii[1])
                  IN  IF g.exc # "none" THEN g
                      ELSE CollectPrerequisites(
                             rest, Append(prerequisites, Upper(Strip(ii[1]))), g.val)
           ELSE CollectPrerequisites(
                  rest, Append(prerequisites, ContinuationToken(prev_dept, ii[1])),
                  prev_dept)

\* Normalize without the call of sorted().
Normalize_Unsorted(prerequisites) ==
  [n \in DOMAIN prerequisites |-> Replace(prerequisites[n], Space, <<>>)]

\* Line 109: every token without its spaces, sorted.
Normalize(prerequisites) ==
  SortedStrs([n \in DOMAIN prerequisites |-> Replace(prerequisites[n], Space, <<>>)])

\* Line 87: description.split('Coreqs:')[0].split('Prereq:')[1].split('.'),
\* of which only the first part is used; [1] of a one-element list raises.
PrereqClause(description) ==
  LET head == Split(description, CoreqsMark)[1]
      segs == Split(head, PrereqMark)
  IN  IF Len(segs) < 2 THEN Raised("IndexError")
      ELSE Returned(Split(segs[2], Dot)[1])

\* Line 109 after the loop: the list normalized, unless the loop raised.
ReturnNormalized(got) ==
  IF got.exc # "none" THEN got ELSE Returned(Normalize(got.val))

\* Lines 89-109 on the clause line 87 yields, unless line 87 raised.
ParseClause(clause) ==
  IF clause.exc # "none" THEN clause
  ELSE ReturnNormalized(CollectPrerequisites(FindAll(clause.val), <<>>, None))

\* parse_prerequisites without the test of line 83.
parse_prerequisites_NoMarkerTest(description) == ParseClause(PrereqClause(description))

\* parse_prerequisites, given the text of the node's courseDescription.
parse_prerequisites(description) ==
  IF ~Contains(description, PrereqMark) THEN Returned(<<>>)
  ELSE ParseClause(PrereqClause(description))

(***************************************************************************)
(* Course                                                                  *)
(***************************************************************************)

\* The namedtuple's fields, in declaration order.
CourseFields ==
  <<"college", "department", "code", "name", "credits", "tags", "prerequisites">>

Course(college, department, code, name, credits, tags, prerequisites) ==
  [college |-> college, department |-> department, code |-> code, name |-> name,
   credits |-> credits, tags |-> tags, prerequisites |-> prerequisites]

\* The fields that identify a course.
CourseKey(c) == <<c.college, c.department, c.code>>

\* Course.__eq__ as the tuple's own: every field compared.
CourseEq_AllFields(self, other) == self = other

\* Course.__eq__
CourseEq(self, other) ==
  /\ self.college = other.college
  /\ self.department = other.department
  /\ self.code = other.code

\* Course.__hash__: the hash of this tuple.
CourseHash(self) == <<self.college, self.department, self.code>>

\* set.add putting the new element in the place of the equal one it has.
SetAdd_LastWins(set, c) ==
  {x \in set : ~(CourseHash(x) = CourseHash(c) /\ CourseEq(x, c))} \cup {c}

\* set.add: an element is already present when one of the same hash compares
\* equal to it, and then the set keeps the one it has.
SetAdd(set, c) ==
  IF \E x \in set : CourseHash(x) = CourseHash(c) /\ CourseEq(x, c)
    THEN set
    ELSE set \cup {c}

\* set(l): the elements of the list added one after the other.
RECURSIVE SetOfList(_)
SetOfList(l) ==
  IF l = <<>> THEN {}
  ELSE SetAdd(SetOfList(SubSeq(l, 1, Len(l) - 1)), l[Len(l)])

\* a |= b: every element of b added to a. The elements of b are pairwise
\* unequal, so the order in which b is walked does not show in the result.
RECURSIVE SetUnion(_, _)
SetUnion(a, b) ==
  IF b = {} THEN a
  ELSE LET c == CHOOSE x \in b : TRUE
       IN  SetUnion(SetAdd(a, c), b \ {c})

(***************************************************************************)
(* float and its text                                                      *)
(***************************************************************************)

\* The value of a string of decimal digits.
RECURSIVE DigitsValue(_)
DigitsValue(s) ==
  IF s = <<>> THEN 0
  ELSE 10 * DigitsValue(SubSeq(s, 1, Len(s) - 1)) + (s[Len(s)] - Ord("0"))

\* s without its trailing '0' characters.
RECURSIVE DropTrailingZeros(_)
DropTrailingZeros(s) ==
  IF s # <<>> /\ s[Len(s)] = Ord("0")
    THEN DropTrailingZeros(SubSeq(s, 1, Len(s) - 1))
    ELSE s

RECURSIVE Pow10(_)
Pow10(n) == IF n = 0 THEN 1 ELSE 10 * Pow10(n - 1)

\* float(text) for an unsigned decimal literal, digits with an optional
\* fraction, spaces around it ignored: the number num / den with den the least power of ten that
\* serves. Any other text raises ValueError.
Float(text) ==
  LET parts == Split(Strip(text), Dot)
      whole == parts[1]
      frac  == IF Len(parts) = 2 THEN DropTrailingZeros(parts[2]) ELSE <<>>
      wellFormed ==
        /\ Len(parts) <= 2
        /\ \A kk \in DOMAIN parts : \A j \in DOMAIN parts[kk] : IsDigit(parts[kk][j])
        /\ \E kk \in DOMAIN parts : parts[kk] # <<>>
  IN  IF ~wellFormed THEN Raised("ValueError")
      ELSE Returned([num |-> DigitsValue(whole \o frac), den |-> Pow10(Len(frac))])

FloatLess(x, y) == x.num * y.den < y.num * x.den

\* str(n) for a natural number n.
RECURSIVE NatStr(_)
NatStr(n) ==
  IF n < 10 THEN <<Ord("0") + n>>
  ELSE NatStr(n \div 10) \o <<Ord("0") + (n % 10)>>

\* The fraction digits of num / den, den a power of ten: num % den written
\* with as many digits as den has zeros.
RECURSIVE FractionDigits(_, _)
FractionDigits(rest, den) ==
  IF den = 1 THEN <<>>
  ELSE <<Ord("0") + (rest \div (den \div 10))>>
         \o FractionDigits(rest % (den \div 10), den \div 10)

\* str(x) of a float, as csv.writer writes it: "5.0", "2.5".
FloatStr(x) ==
  NatStr(x.num \div x.den) \o Dot
    \o (IF x.den = 1 THEN <<Ord("0")>> ELSE FractionDigits(x.num % x.den, x.den))

(***************************************************************************)
(* export_courses                                                          *)
(***************************************************************************)

\* a < b for lists of strings, as Python compares lists.
StrListLess(a, b) ==
  \E ii \in 1 .. Len(b) :
    /\ ii - 1 <= Len(a)
    /\ \A j \in 1 .. (ii - 1) : a[j] = b[j]
    /\ (ii > Len(a) \/ SeqLess(a[ii], b[ii]))

\* a[f] < b[f] for the field f of two courses.
FieldLess(f, a, b) ==
  IF f = "credits" THEN FloatLess(a.credits, b.credits)
  ELSE IF f \in {"tags", "prerequisites"} THEN StrListLess(a[f], b[f])
  ELSE SeqLess(a[f], b[f])

\* a < b for two courses: the comparison Course inherits from tuple, which
\* looks for the first field that differs and compares that one.
CourseLess(a, b) ==
  \E kk \in DOMAIN CourseFields :
    /\ \A j \in 1 .. (kk - 1) : a[CourseFields[j]] = b[CourseFields[j]]
    /\ a[CourseFields[kk]] # b[CourseFields[kk]]
    /\ FieldLess(CourseFields[kk], a, b)

\* sorted(courses) leaving the courses in the order they came in.
SortedCourses_Unsorted(l) == l

\* sorted(courses) for a list of courses (stable).
RECURSIVE SortedCourses(_)
SortedCourses(l) ==
  IF l = <<>> THEN <<>>
  ELSE LET rest == SortedCourses(SubSeq(l, 1, Len(l) - 1))
           x    == l[Len(l)]
           n    == Cardinality({ii \in DOMAIN rest : ~CourseLess(x, rest[ii])})
       IN  SubSeq(rest, 1, n) \o <<x>> \o SubSeq(rest, n + 1, Len(rest))

\* ','.join(l)
RECURSIVE Join(_)
Join(l) ==
  IF l = <<>> THEN <<>>
  ELSE IF Len(l) = 1 THEN l[1]
  ELSE l[1] \o Str(<<",">>) \o Join(Tail(l))

\* The header row of lines 192-195.
Header ==
  << Str(<<"C", "o", "l", "l", "e", "g", "e">>),
     Str(<<"D", "e", "p", "a", "r", "t", "m", "e", "n", "t">>),
     Str(<<"C", "o", "d", "e">>),
     Str(<<"N", "a", "m", "e">>),
     Str(<<"C", "r", "e", "d", "i", "t", "s">>),
     Str(<<"T", "a", "g", "s">>),
     Str(<<"P", "r", "e", "r", "e", "q", "u", "i", "s", "i", "t", "e", "s">>) >>

\* The fields of the row written for one course (lines 198-201).
Row(course) ==
  << course.college, course.department, course.code, course.name,
     FloatStr(course.credits), Join(course.tags), Join(course.prerequisites) >>

\* The rows export_courses hands to the writer, given the courses in the
\* order sorted() left them.
RowsOf(sorted) == <<Header>> \o [kk \in DOMAIN sorted |-> Row(sorted[kk])]

\* The characters of csv.writer's default dialect: the delimiter, the quote
\* character, and the line terminator "\r\n".
Comma == Str(<<",">>)
Quote == Str(<<"\"">>)
CRLF == <<13, 10>>

\* One field as csv.writer writes it (QUOTE_MINIMAL, doublequote): a field
\* holding the delimiter, the quote character or a character of the line
\* terminator is put in quotes, with every quote character in it doubled.
CsvField(f) ==
  IF \E n \in DOMAIN f : f[n] \in {Comma[1], Quote[1], CRLF[1], CRLF[2]}
    THEN Quote \o Replace(f, Quote, Quote \o Quote) \o Quote
    ELSE f

\* writer.writerow(row) without its line terminator.
RECURSIVE CsvJoin(_)
CsvJoin(row) ==
  IF row = <<>> THEN <<>>
  ELSE IF Len(row) = 1 THEN CsvField(row[1])
  ELSE CsvField(row[1]) \o Comma \o CsvJoin(Tail(row))

\* The rows of the output run together, no line terminator written.
CsvLine_NoTerminator(row) == CsvJoin(row)

\* writer.writerow(row): the text it adds to the output.
CsvLine(row) == CsvJoin(row) \o CRLF

\* output.getvalue() (line 283) after these rows were written.
RECURSIVE getvalue(_)
getvalue(rows) ==
  IF rows = <<>> THEN <<>> ELSE CsvLine(Head(rows)) \o getvalue(Tail(rows))

(***************************************************************************)
(* Descriptions met in the catalog                                        *)
(***************************************************************************)

\* "Prereq: ENGL& 101 and 102."
DescEngl ==
  Str(<<"P", "r", "e", "r", "e", "q", ":", " ", "E", "N", "G", "L", "&", " ",
        "1", "0", "1", " ", "a", "n", "d", " ", "1", "0", "2", ".">>)

\* "Prereq: minimum 2.0 GPA and MATH 097."
DescGpa ==
  Str(<<"P", "r", "e", "r", "e", "q", ":", " ", "m", "i", "n", "i", "m", "u", "m",
        " ", "2", ".", "0", " ", "G", "P", "A", " ", "a", "n", "d", " ",
        "M", "A", "T", "H", " ", "0", "9", "7", ".">>)

\* "Prereq: MATH 098 or placement."
DescPlacement ==
  Str(<<"P", "r", "e", "r", "e", "q", ":", " ", "M", "A", "T", "H", " ", "0", "9", "8",
        " ", "o", "r", " ", "p", "l", "a", "c", "e", "m", "e", "n", "t", ".">>)

\* "No prerequisites."
DescNone ==
  Str(<<"N", "o", " ", "p", "r", "e", "r", "e", "q", "u", "i", "s", "i", "t", "e", "s", ".">>)

\* "Coreqs: MATH 101. Prereq: ENGL 101."
DescCoreqsFirst ==
  Str(<<"C", "o", "r", "e", "q", "s", ":", " ", "M", "A", "T", "H", " ", "1", "0", "1", ".",
        " ", "P", "r", "e", "r", "e", "q", ":", " ", "E", "N", "G", "L", " ", "1", "0", "1", ".">>)

(***************************************************************************)
(* parse_course                                                            *)
(***************************************************************************)

\* titlecase.titlecase(s), for text made of lower-case words none of which is
\* one of the library's small words: every word gets a capital first letter.
TitleCase(s) ==
  [n \in DOMAIN s |->
     IF IsLower(s[n]) /\ (n = 1 \/ IsSpace(s[n - 1])) THEN s[n] - 32 ELSE s[n]]

\* re.match(r'([A-Z&]+) *(\d+)', title): <<group 1, group 2>>, or <<>> when
\* the title does not start with capitals (or '&'), spaces and digits.
TitleMatch(title) ==
  LET e1 == RunEnd(title, 1, ClassUpperAmp)
      e2 == RunEnd(title, e1, ClassSpace)
      e3 == RunEnd(title, e2, ClassDigit)
  IN  IF e1 = 1 \/ e3 = e2 THEN <<>>
      ELSE <<SubSeq(title, 1, e1 - 1), SubSeq(title, e2, e3 - 1)>>

\* What parse_course returns for a node that gives no course.
NoCourse == [college |-> <<>>]

\* Lines 130-148 once the texts are read: m is the match of the title, creds
\* what float() gave, prerequisites what parse_prerequisites gave.
CourseOf(college, node, m, creds, prerequisites) ==
  IF m = <<>> THEN Returned(NoCourse)
  ELSE IF creds.exc # "none" THEN creds
  ELSE IF prerequisites.exc # "none" THEN prerequisites
  ELSE Returned(Course(TitleCase(college), m[1], m[2],
                       TitleCase(node.courseTitle), creds.val,
                       node.classTags, prerequisites.val))

\* parse_course, given the texts of the node: the course, NoCourse for a
\* title that does not parse, or the exception float() or
\* parse_prerequisites raised.
parse_course(college, node) ==
  CourseOf(college, node, TitleMatch(node.courseID), Float(node.courseCredits),
           parse_prerequisites(node.courseDescription))

\* export_courses hands the writer these rows for these courses.
export_courses(cs) == RowsOf(SortedCourses(cs))

\* The elements of a set as a list, in the order iterating the set yields
\* them: some order, unrelated to the order of insertion.
RECURSIVE IterationOf(_)
IterationOf(set) ==
  IF set = {} THEN <<>>
  ELSE LET c == CHOOSE x \in set : TRUE
       IN  <<c>> \o IterationOf(set \ {c})

\* The keys of COURSE_INDICES, in the order the dictionary holds them.
COURSE_INDICES ==
  << Str(<<"c", "e", "n", "t", "r", "a", "l">>),
     Str(<<"n", "o", "r", "t", "h">>),
     Str(<<"s", "o", "u", "t", "h">>) >>

(***************************************************************************)
(* State                                                                   *)
(***************************************************************************)

VARIABLES
  pc,           \* the position of the run
  k,            \* main: the index in COURSE_INDICES of the institution at hand
  quarters,     \* main: the number of options of the term selector held
  i,            \* main: the index of the term at hand
  d,            \* extract_courses: the index of the department at hand
  nd,           \* get_courses: the index of the course node at hand
  loader,       \* wait_for_load, called by load_quarter: what the last
                \*   loader.is_displayed() gave, "idle" outside that call
  found,        \* extract_courses: the list of courses parsed in this term
  deptFound,    \* get_courses: the list of courses parsed in this department
  seen,         \* get_courses: the titles (courseID texts) of the nodes the
                \*              loop of line 170 has been through, in order
  panels,       \* the page: the nodes of the course list get_courses works on
                \*           whose detail panel is open
  courses,      \* main: the accumulated set
  given,        \* export_courses: the collection it is handed, as it iterates
  written,      \* export_courses: the collection after sorted()
  output,       \* the rows written, <<>> while nothing has been written
  parsed,       \* history: the keys of the courses parse_course has returned
  faults,       \* history: the <<institution, term>> pairs in whose processing
                \*          a WebDriverException was caught
  unfinished,   \* history: those of them not merged since
  courseDescription,  \* the text handed to parse_prerequisites
  prereqs       \* what parse_prerequisites gave back: Returned(list) or Raised(e)

crawlVars ==
  <<k, quarters, i, loader, d, nd, found, deptFound, seen, panels, courses, parsed, faults, unfinished>>
exportVars == <<given, written, output>>
parseVars == <<courseDescription, prereqs>>
vars == <<pc, crawlVars, exportVars, parseVars>>

\* No call has been made yet.
NotCalled == [exc |-> "pending", val |-> <<>>]

\* The variables of the crawl, of export_courses and of parse_prerequisites
\* where a run does not use them.
CrawlIdle ==
  /\ k = 1 /\ quarters = 0 /\ i = 0 /\ loader = "idle" /\ d = 1 /\ nd = 1
  /\ found = <<>> /\ deptFound = <<>> /\ seen = <<>> /\ panels = {} /\ courses = {}
  /\ parsed = {} /\ faults = {} /\ unfinished = {}
ExportIdle == given = <<>> /\ written = <<>> /\ output = <<>>
ParseIdle == courseDescription = <<>> /\ prereqs = NotCalled

(***************************************************************************)
(* main: the crawl                                                         *)
(***************************************************************************)

\* The most options the term selector of an institution offers.
MaxTerms == 2
\* The departments listed for a term, and the course nodes of a department.
NumDepts == 1
NumNodes == 2

\* The texts a course node may show: two nodes of one course that differ in
\* title, credits and tags, a node whose title is no course code, and a node
\* whose description has "Coreqs:" before "Prereq:".
NodeTexts ==
  { [courseID |-> Str(<<"M", "A", "T", "H", "&", " ", "1", "4", "1">>),
     courseTitle |-> Str(<<"p", "r", "e", "c", "a", "l", "c", "u", "l", "u", "s">>),
     courseCredits |-> Str(<<"5", ".", "0">>),
     classTags |-> <<>>,
     courseDescription |-> DescPlacement],
    [courseID |-> Str(<<"M", "A", "T", "H", "&", " ", "1", "4", "1">>),
     courseTitle |-> Str(<<"a", "l", "g", "e", "b", "r", "a">>),
     courseCredits |-> Str(<<"3">>),
     classTags |-> <<Str(<<"N", "S">>)>>,
     courseDescription |-> <<>>],
    [courseID |-> Str(<<"L", "a", "b">>),
     courseTitle |-> Str(<<"l", "a", "b">>),
     courseCredits |-> Str(<<"1">>),
     classTags |-> <<>>,
     courseDescription |-> <<>>],
    [courseID |-> Str(<<"E", "N", "G", "L", " ", "1", "0", "1">>),
     courseTitle |-> Str(<<"c", "o", "m", "p", "o", "s", "i", "t", "i", "o", "n">>),
     courseCredits |-> Str(<<"5">>),
     classTags |-> <<>>,
     courseDescription |-> DescCoreqsFirst] }

\* parse_course on every node text, for every institution (a table, so that
\* each outcome is computed once).
NodeOutcome ==
  [p \in (DOMAIN COURSE_INDICES) \X NodeTexts |->
     parse_course(COURSE_INDICES[p[1]], p[2])] @@ <<>>

Init ==
  /\ pc = "get"
  /\ CrawlIdle
  /\ ExportIdle
  /\ ParseIdle

\* Lines 262-266: the institution's index is loaded and the term selector
\* acquired; the page decides how many options it has.
OpenIndex ==
  /\ pc = "get"
  /\ \E n \in 0 .. MaxTerms : quarters' = n
  /\ i' = 0
  /\ pc' = "while"
  /\ UNCHANGED <<k, loader, d, nd, found, deptFound, seen, panels, courses, parsed, faults, unfinished,
                 exportVars, parseVars>>

\* The export inside the loop over the institutions.
ContinueFor_ExportInside == pc' = "export" /\ k' = k

\* The statement after the try statement: the next institution, or, the
\* loop over COURSE_INDICES being over, the export of line 281.
ContinueFor ==
  IF k < Len(COURSE_INDICES)
    THEN pc' = "get" /\ k' = k + 1
    ELSE pc' = "export" /\ k' = k

\* Line 268 with i < len(quarters.options), and line 269 as far as line 50:
\* the term is selected (line 243) and wait_for_load has found the loader.
LoadQuarter ==
  /\ pc = "while"
  /\ i < quarters
  /\ pc' = "loading"
  /\ UNCHANGED <<k, quarters, i, loader, d, nd, found, deptFound, seen, panels, courses, parsed, faults, unfinished,
                 exportVars, parseVars>>

\* Line 51: loader.is_displayed() is asked, at first and again after each
\* sleep of line 52; the page decides what it answers.
PollLoader ==
  /\ pc = "loading"
  /\ loader \in {"idle", "visible"}
  /\ \E shown \in {"visible", "hidden"} : loader' = shown
  /\ UNCHANGED <<pc, k, quarters, i, d, nd, found, deptFound, seen, panels, courses, parsed,
                 faults, unfinished, exportVars, parseVars>>

\* wait_for_load gives up waiting: it returns whatever the loader showed.
ReturnFromWait_TimesOut ==
  /\ pc = "loading"
  /\ loader \in {"visible", "hidden"}
  /\ loader' = "idle"
  /\ found' = <<>>
  /\ d' = 1
  /\ pc' = "dept"
  /\ UNCHANGED <<k, quarters, i, nd, deptFound, seen, panels, courses, parsed, faults,
                 unfinished, exportVars, parseVars>>

\* Line 51 with the loader not displayed: wait_for_load and load_quarter
\* return, and extract_courses reads the department list (lines 214-215).
ReturnFromWait ==
  /\ pc = "loading"
  /\ loader = "hidden"
  /\ loader' = "idle"
  /\ found' = <<>>
  /\ d' = 1
  /\ pc' = "dept"
  /\ UNCHANGED <<k, quarters, i, nd, deptFound, seen, panels, courses, parsed, faults,
                 unfinished, exportVars, parseVars>>

\* Line 268 with i = len(quarters.options): the term loop ends.
ExitTermLoop ==
  /\ pc = "while"
  /\ i >= quarters
  /\ ContinueFor
  /\ UNCHANGED <<quarters, i, loader, d, nd, found, deptFound, seen, panels, courses, parsed, faults,
                 unfinished, exportVars, parseVars>>

\* Line 216 with a department left, and lines 163-169 of get_courses.
EnterDepartment ==
  /\ pc = "dept"
  /\ d <= NumDepts
  /\ deptFound' = <<>>
  /\ seen' = <<>>
  /\ panels' = {}
  /\ nd' = 1
  /\ pc' = "course"
  /\ UNCHANGED <<k, quarters, i, loader, d, found, courses, parsed, faults, unfinished,
                 exportVars, parseVars>>

\* The frame of get_courses is left: its locals are no more, and the course
\* list it worked on is not looked at again (line 163 brings a new one).
ReturnFromGetCourses == deptFound' = <<>> /\ seen' = <<>> /\ panels' = {} /\ nd' = 1

\* The frames of load_quarter, extract_courses and get_courses are left, by a
\* return or by an exception on its way to main.
LeaveExtractCourses ==
  loader' = "idle" /\ found' = <<>> /\ d' = 1 /\ ReturnFromGetCourses

\* A title that does not parse ends the loop over the nodes.
AfterParseCourse_AnomalyEndsLoop(node, r) ==
  IF r.exc # "none"
    THEN pc' = "crashed" /\ LeaveExtractCourses /\ UNCHANGED parsed
  ELSE IF r.val = NoCourse
    THEN /\ pc' = pc
         /\ nd' = NumNodes + 1
         /\ seen' = Append(seen, node.courseID)
         /\ panels' = panels \cup {nd}
         /\ UNCHANGED <<loader, d, found, deptFound, parsed>>
  ELSE /\ pc' = pc
       /\ nd' = nd + 1
       /\ seen' = Append(seen, node.courseID)
       /\ deptFound' = Append(deptFound, r.val)
       /\ parsed' = parsed \cup {CourseKey(r.val)}
       /\ UNCHANGED <<loader, d, found, panels>>

\* Lines 171-173 once parse_course is over with the outcome r. An exception
\* that is no WebDriverException is not caught in main. The click of line 125
\* has opened the panel of the node; the click of line 143 closes it, and is
\* reached only when a course is returned (line 132 returns before it).
AfterParseCourse(node, r) ==
  IF r.exc # "none"
    THEN pc' = "crashed" /\ LeaveExtractCourses /\ UNCHANGED parsed
  ELSE IF r.val = NoCourse
    THEN /\ pc' = pc
         /\ nd' = nd + 1
         /\ seen' = Append(seen, node.courseID)
         /\ panels' = panels \cup {nd}
         /\ UNCHANGED <<loader, d, found, deptFound, parsed>>
  ELSE /\ pc' = pc
       /\ nd' = nd + 1
       /\ seen' = Append(seen, node.courseID)
       /\ deptFound' = Append(deptFound, r.val)
       /\ parsed' = parsed \cup {CourseKey(r.val)}
       /\ UNCHANGED <<loader, d, found, panels>>

\* Lines 170-173: parse_course on the next node, whose texts the page decides.
ParseCourse ==
  /\ pc = "course"
  /\ nd <= NumNodes
  /\ \E node \in NodeTexts : AfterParseCourse(node, NodeOutcome[<<k, node>>])
  /\ UNCHANGED <<k, quarters, i, courses, faults, unfinished, exportVars, parseVars>>

\* Lines 176-180 and the += of line 217: back to the department list.
LeaveDepartment ==
  /\ pc = "course"
  /\ nd > NumNodes
  /\ found' = found \o deptFound
  /\ d' = d + 1
  /\ pc' = "dept"
  /\ ReturnFromGetCourses
  /\ UNCHANGED <<k, quarters, i, loader, courses, parsed, faults, unfinished,
                 exportVars, parseVars>>

\* Line 219 and lines 270-271: the term's set is merged and i advances.
MergeTerm ==
  /\ pc = "dept"
  /\ d > NumDepts
  /\ courses' = SetUnion(courses, SetOfList(found))
  /\ i' = i + 1
  /\ unfinished' = unfinished \ {<<k, i>>}
  /\ pc' = "while"
  /\ LeaveExtractCourses
  /\ UNCHANGED <<k, quarters, parsed, faults, exportVars, parseVars>>

\* A call into the browser is under way inside the try statement: selecting
\* the term, entering a department, opening a course or going back.
InTermLoop ==
  \/ pc = "while" /\ i < quarters
  \/ pc = "loading"
  \/ pc = "dept" /\ d <= NumDepts
  \/ pc = "course"

\* The exception hands main the courses parsed so far in the term.
WebDriverException_MergesPartial ==
  /\ InTermLoop
  /\ faults' = faults \cup {<<k, i>>}
  /\ unfinished' = unfinished \cup {<<k, i>>}
  /\ courses' = SetUnion(courses, SetOfList(found \o deptFound))
  /\ pc' = "except"
  /\ LeaveExtractCourses
  /\ UNCHANGED <<k, quarters, i, parsed, exportVars, parseVars>>

\* Line 272: that call raises a WebDriverException.
WebDriverException ==
  /\ InTermLoop
  /\ faults' = faults \cup {<<k, i>>}
  /\ unfinished' = unfinished \cup {<<k, i>>}
  /\ pc' = "except"
  /\ LeaveExtractCourses
  /\ UNCHANGED <<k, quarters, i, courses, parsed, exportVars, parseVars>>

\* The handler ends the loop over the institutions.
HandleException_EndsLoop ==
  /\ pc = "except"
  /\ pc' = "export"
  /\ UNCHANGED <<crawlVars, exportVars, parseVars>>

\* Lines 276-279: the handler logs and acquires the term selector again (of
\* the same page, so with the options it had), and the try statement is over.
HandleException ==
  /\ pc = "except"
  /\ ContinueFor
  /\ UNCHANGED <<quarters, i, loader, d, nd, found, deptFound, seen, panels, courses, parsed, faults,
                 unfinished, exportVars, parseVars>>

\* An exception main does not catch: any exception of lines 262-265 or of
\* line 279, and any exception but WebDriverException inside the loop.
FatalFault ==
  /\ pc \in {"get", "except"} \/ InTermLoop
  /\ pc' = "crashed"
  /\ LeaveExtractCourses
  /\ UNCHANGED <<k, quarters, i, courses, parsed, faults, unfinished,
                 exportVars, parseVars>>

\* Lines 281-283.
Export ==
  /\ pc = "export"
  /\ given' = IterationOf(courses)
  /\ written' = SortedCourses(given')
  /\ output' = export_courses(given')
  /\ pc' = "done"
  /\ UNCHANGED <<crawlVars, parseVars>>

Next ==
  \/ OpenIndex
  \/ LoadQuarter
  \/ PollLoader
  \/ ReturnFromWait
  \/ ExitTermLoop
  \/ EnterDepartment
  \/ ParseCourse
  \/ LeaveDepartment
  \/ MergeTerm
  \/ WebDriverException
  \/ HandleException
  \/ FatalFault
  \/ Export

Spec == Init /\ [][Next]_vars

(***************************************************************************)
(* Claims about the crawl (checked under Spec)                             *)
(***************************************************************************)

Range(l) == {l[n] : n \in DOMAIN l}

\* C1, as stated: when a WebDriverException is caught while term i of
\* institution k is processed, the handler leads back to the term loop of the
\* same institution at the same term index, so that term i is processed again
\* before any later term or the next institution.
C1_RetriesSameTerm ==
  [][(pc = "except" /\ pc' # "crashed") => (pc' = "while" /\ k' = k /\ i' = i)]_vars

\* C2, as stated: in a run in which a WebDriverException was caught, every
\* course parsed before the fault is in the set handed to export_courses,
\* exactly once per (college, department, code).
C2_ParsedCoursesExported ==
  (pc = "done" /\ faults # {}) =>
    \A key \in parsed :
      Cardinality({n \in DOMAIN written : CourseKey(written[n]) = key}) = 1

\* C3: in every state of the crawl the accumulated set holds at most one
\* record per (college, department, code), and so does the collection
\* exported; two records met in the crawl that agree on the triple are equal
\* and hash identically whatever their other fields, and a set given both
\* keeps exactly one.
C3_OneRecordPerKey ==
  /\ \A x, y \in courses : CourseKey(x) = CourseKey(y) => x = y
  /\ \A m, n \in DOMAIN written :
       CourseKey(written[m]) = CourseKey(written[n]) => m = n
  /\ \A x, y \in courses \cup Range(found) \cup Range(deptFound) :
       CourseKey(x) = CourseKey(y) =>
         /\ CourseEq(x, y)
         /\ CourseHash(x) = CourseHash(y)
         /\ Cardinality(SetAdd(SetAdd({}, x), y)) = 1
         /\ Cardinality(SetUnion({x}, SetOfList(<<y>>))) = 1

\* C3: a term has been merged for this institution, and the term about to be
\* merged brings a record with the triple of a record of the set and other
\* descriptive fields.
C3_Witness ==
  /\ pc = "dept" /\ d > NumDepts /\ i >= 1
  /\ \E x \in courses : \E y \in Range(found) :
       CourseKey(x) = CourseKey(y) /\ x.name # y.name /\ x.credits # y.credits

\* C4, as stated: a term whose every attempt ends in a WebDriverException is
\* retried without end, so a run with such a term never reaches the export.
C4_PersistentFaultNeverExports ==
  pc \in {"export", "done"} => unfinished = {}

\* C5: rows are written at most once, and only by the export that follows the
\* loop over all institutions; a run ended by an exception main does not
\* catch stays ended and has written nothing, whatever it had collected.
C5_ExportOnceOnFullSuccessOnly ==
  /\ [](output # <<>> => (pc = "done" /\ k = Len(COURSE_INDICES)))
  /\ [](pc = "crashed" => output = <<>>)
  /\ [][pc = "crashed" => pc' = "crashed"]_vars
  /\ [][output # <<>> => output' = output]_vars

\* C5: an uncaught exception has ended the run in a later institution, after
\* courses had been collected, and nothing has been written.
C5_Witness ==
  pc = "crashed" /\ k >= 2 /\ courses # {} /\ output = <<>>

\* re.match of line 129 on the titles the nodes show, and the names of the
\* institutions as line 147 writes them (tables, computed once).
TitleMatches == [t \in {node.courseID : node \in NodeTexts} |-> TitleMatch(t)] @@ <<>>
Colleges == [inst \in DOMAIN COURSE_INDICES |-> TitleCase(COURSE_INDICES[inst])] @@ <<>>

\* The (college, department, code) of the titles that match the grammar of
\* line 129, for institution inst, in the order of the titles.
RECURSIVE KeysOf(_, _)
KeysOf(inst, titles) ==
  IF titles = <<>> THEN <<>>
  ELSE LET m == TitleMatches[Head(titles)]
       IN  (IF m = <<>> THEN <<>> ELSE <<<<Colleges[inst], m[1], m[2]>>>>)
             \o KeysOf(inst, Tail(titles))

\* The keys of the courses of a list, in order.
KeysIn(l) == [n \in DOMAIN l |-> CourseKey(l[n])]

\* C11: parse_course returns no course for a node whose title does not match
\* the grammar; get_courses then goes on to the next node, so that while it
\* runs it has been through one node per turn of the loop and holds one
\* record for each of them whose title parses, in order, and none for the
\* others, and it returns only after the last node, handing over the records
\* of all the nodes that parse.
C11_AnomalySkipsOneNode ==
  /\ \A node \in NodeTexts : \A inst \in DOMAIN COURSE_INDICES :
       TitleMatch(node.courseID) = <<>> =>
         NodeOutcome[<<inst, node>>] = Returned(NoCourse)
  /\ [](pc = "course" => (Len(seen) = nd - 1 /\ KeysIn(deptFound) = KeysOf(k, seen)))
  /\ [][(pc = "course" /\ pc' = "course" /\ TitleMatches[seen'[Len(seen')]] = <<>>)
          => (nd' = nd + 1 /\ deptFound' = deptFound)]_vars
  /\ [][(pc = "course" /\ pc' = "dept")
          => (Len(seen) = NumNodes /\ found' = found \o deptFound)]_vars

\* C11: get_courses is about to return; the title of the first node did not
\* parse, the node after it was visited and its record is held.
C11_Witness ==
  /\ pc = "course" /\ nd > NumNodes
  /\ TitleMatch(seen[1]) = <<>>
  /\ TitleMatch(seen[2]) # <<>>
  /\ Len(deptFound) = 1

\* C14, as stated: every panel parse_course opens it closes again before the
\* next node is opened, the node skipped for its title included, so that no
\* panel is open when get_courses turns to the next node or leaves the list,
\* and never more than one is open.
C14_PanelsClosedBetweenNodes ==
  /\ pc = "course" => panels = {}
  /\ Cardinality(panels) <= 1

\* C15: wait_for_load returns to load_quarter only when the last thing it
\* saw of the loader was that it is not displayed: from a wait the run gets
\* to the department list by no other step, and after a poll that saw the
\* loader displayed it stays in the wait (or leaves it by an exception)
\* however often that has happened, there being no step that gives up.
C15_ReturnsOnlyWhenLoaderHidden ==
  /\ [][(pc = "loading" /\ pc' \notin {"loading", "except", "crashed"})
          => (loader = "hidden" /\ pc' = "dept")]_vars
  /\ [][(pc = "loading" /\ loader = "visible")
          => pc' \in {"loading", "except", "crashed"}]_vars
  /\ [][(pc # "loading" /\ pc' = "dept") => pc \in {"dept", "course"}]_vars
  /\ [](pc \in {"dept", "course"} => loader = "idle")

\* C15: a second term has been selected and the loader was displayed when
\* wait_for_load last looked.
C15_Witness == pc = "loading" /\ loader = "visible" /\ i >= 1 /\ courses # {}

\* C16: the accumulated set changes only in the step that ends a term whose
\* extraction returned, and then to its union with the whole term's set;
\* every record it holds it keeps; and a step that raises an exception, as
\* every other step inside a term, leaves it as it was when the term began.
C16_MergedByWholeTermsOnly ==
  /\ [][courses' # courses
          => /\ pc = "dept" /\ d > NumDepts
             /\ pc' = "while" /\ k' = k /\ i' = i + 1
             /\ courses' = SetUnion(courses, SetOfList(found))]_vars
  /\ [][courses \subseteq courses']_vars
  /\ [][pc' \in {"except", "crashed"} => courses' = courses]_vars
  /\ [][(pc \in {"loading", "dept", "course"} /\ pc' # "while")
          => courses' = courses]_vars

\* C16: an exception has been caught in a term in which a course had been
\* parsed that the set, not empty, has no record of.
C16_Witness ==
  /\ pc = "except"
  /\ courses # {}
  /\ \E key \in parsed : \A c \in courses : CourseKey(c) # key

\* The first course of the list with this key.
FirstWithKey(l, key) ==
  l[CHOOSE n \in DOMAIN l :
      /\ CourseKey(l[n]) = key
      /\ \A m \in 1 .. (n - 1) : CourseKey(l[m]) # key]

\* C17: when a term is merged, a key the set has a record for keeps that
\* very record, whatever records of that key the term brings, and a key new
\* to the set gets the record of the first node of the term that has it; the
\* set changes in no other step, so the record of a key is the first one of
\* the earliest merged term that had it, and it is the one exported.
C17_FirstCollectedSurvives ==
  /\ [][(pc = "dept" /\ pc' = "while")
          => /\ \A x \in courses' :
                  IF \E y \in courses : CourseKey(y) = CourseKey(x)
                    THEN x \in courses
                    ELSE x = FirstWithKey(found, CourseKey(x))
             /\ {CourseKey(x) : x \in courses'}
                  = {CourseKey(x) : x \in courses} \cup {CourseKey(x) : x \in Range(found)}]_vars
  /\ [][courses' # courses => (pc = "dept" /\ pc' = "while")]_vars
  /\ [](pc = "done" => Range(written) = courses)

\* C17: a term is about to be merged that brings two records of one key, the
\* second of which is the one the set got from an earlier term, the first
\* another.
C17_Witness ==
  /\ pc = "dept" /\ d > NumDepts /\ i >= 1
  /\ Len(found) = 2
  /\ CourseKey(found[1]) = CourseKey(found[2])
  /\ found[1] # found[2]
  /\ found[2] \in courses

\* How far the run has got: the steps of a term, the terms and the end of an
\* institution, the institutions, the export, the two ends.
DeptSteps == NumNodes + 2
TermSteps == 3 + NumDepts * DeptSteps
InstitutionSteps == 3 + (MaxTerms + 1) * TermSteps
Progress ==
  LET term == 1 + i * TermSteps
      dept == term + 2 + (d - 1) * DeptSteps
      here == (k - 1) * InstitutionSteps
  IN  CASE pc = "get" -> here
        [] pc = "while" -> here + term
        [] pc = "loading" -> here + term + 1
        [] pc = "dept" -> here + dept
        [] pc = "course" -> here + dept + nd
        [] pc = "except" -> here + InstitutionSteps - 1
        [] pc = "export" -> Len(COURSE_INDICES) * InstitutionSteps
        [] pc = "done" -> Len(COURSE_INDICES) * InstitutionSteps + 1
        [] pc = "crashed" -> Len(COURSE_INDICES) * InstitutionSteps + 2

\* C18: a handler that came through leads to the next institution of the
\* list, or after the last one to the export, whatever exceptions were
\* caught before; institutions are taken one by one, none left out; an
\* institution taken up has its index opened and, if the selector has an
\* option, its first term selected, unless that very call raises; so the
\* export comes only after every institution was taken up; and the run gets
\* there unless it crashes or polls a loader for ever: every step but a poll
\* of the loader brings it further towards the export.
C18_FaultsEndOneInstitutionOnly ==
  /\ [][(pc = "except" /\ pc' # "crashed")
          => IF k < Len(COURSE_INDICES)
               THEN pc' = "get" /\ k' = k + 1
               ELSE pc' = "export" /\ k' = k]_vars
  /\ [][k' # k => (k' = k + 1 /\ pc' = "get")]_vars
  /\ [][(pc = "get" /\ pc' # "crashed") => (pc' = "while" /\ k' = k /\ i' = 0)]_vars
  /\ [][(pc = "while" /\ i = 0 /\ quarters > 0)
          => pc' \in {"loading", "except", "crashed"}]_vars
  /\ [](pc \in {"export", "done"} => k = Len(COURSE_INDICES))
  /\ [][Progress' > Progress \/ (pc = "loading" /\ pc' = "loading")]_vars

\* C18: the run is over; exceptions were caught in the first and in the
\* second institution, and a course of the third has been exported.
C18_Witness ==
  /\ pc = "done"
  /\ \E m, n \in 0 .. MaxTerms : {<<1, m>>, <<2, n>>} \subseteq faults
  /\ \E n \in DOMAIN written :
       written[n].college = TitleCase(COURSE_INDICES[Len(COURSE_INDICES)])

(***************************************************************************)
(* parse_prerequisites on its own: the descriptions it is applied to       *)
(***************************************************************************)

\* The most fragments a generated description is made of.
MaxFrags == 3

\* The pieces descriptions are generated from: the two markers, the clause
\* separator, full references, continuations and a minimum-grade phrase.
Fragments ==
  { PrereqMark, CoreqsMark, Dot,
    Str(<<" ", "M", "A", "T", "H", " ", "0", "9", "8">>),
    Str(<<" ", "e", "n", "g", "l", "&", " ", "1", "0", "1">>),
    Str(<<" ", "a", "n", "d", " ", "1", "0", "2">>),
    Str(<<" ", "o", "r", " ", "&", "5">>),
    Str(<<" ", "m", "i", "n", "i", "m", "u", "m", " ", "2">>) }

RECURSIVE Concats(_)
Concats(n) ==
  IF n = 0 THEN {<<>>}
  ELSE LET shorter == Concats(n - 1)
       IN  shorter \cup {pre \o f : pre \in shorter, f \in Fragments}

Descriptions ==
  Concats(MaxFrags) \cup {DescEngl, DescGpa, DescPlacement, DescNone, DescCoreqsFirst}

InitParse ==
  /\ pc = "parse_call"
  /\ courseDescription \in Descriptions
  /\ prereqs = NotCalled
  /\ CrawlIdle
  /\ ExportIdle

\* prerequisites = parse_prerequisites(course_node)
ParsePrerequisites ==
  /\ pc = "parse_call"
  /\ prereqs' = parse_prerequisites(courseDescription)
  /\ pc' = "parse_done"
  /\ UNCHANGED <<courseDescription, crawlVars, exportVars>>

NextParse == ParsePrerequisites

SpecParse == InitParse /\ [][NextParse]_vars

(***************************************************************************)
(* Claims about parse_prerequisites (checked under SpecParse)              *)
(***************************************************************************)

ParseDone == pc = "parse_done"

Engl101 == Str(<<"E", "N", "G", "L", "1", "0", "1">>)
Engl102 == Str(<<"E", "N", "G", "L", "1", "0", "2">>)
EnglAmp == Str(<<"E", "N", "G", "L", "&">>)
Math097 == Str(<<"M", "A", "T", "H", "0", "9", "7">>)
Math098 == Str(<<"M", "A", "T", "H", "0", "9", "8">>)

\* C6, as stated: on "Prereq: ENGL& 101 and 102." parse_prerequisites returns
\* exactly ["ENGL101", "ENGL102"].
C6_ReturnsEngl101Engl102 ==
  (ParseDone /\ courseDescription = DescEngl) => prereqs = Returned(<<Engl101, Engl102>>)

\* C6, amended: on "Prereq: ENGL& 101 and 102." parse_prerequisites returns
\* exactly ["ENGL&101", "ENGL&102"]: the '&' of the department is kept, and
\* the bare continuation "and 102" carries the department of the preceding
\* full reference, the same string "ENGL&" that starts that reference's token.
C6_ContinuationInheritsDept ==
  (ParseDone /\ courseDescription = DescEngl) =>
    /\ prereqs = Returned(<< EnglAmp \o Str(<<"1", "0", "1">>),
                             EnglAmp \o Str(<<"1", "0", "2">>) >>)
    /\ \A n \in DOMAIN prereqs.val : StartsWith(prereqs.val[n], EnglAmp)

\* C6: the call on "Prereq: ENGL& 101 and 102." has returned two tokens.
C6_Witness ==
  ParseDone /\ courseDescription = DescEngl /\ prereqs.exc = "none" /\ Len(prereqs.val) = 2

\* C7, as stated: on "Prereq: minimum 2.0 GPA and MATH 097." parse_prerequisites
\* returns exactly ["MATH097"]: the course named after the grade figure is
\* still reported.
C7_ReturnsMath097 ==
  (ParseDone /\ courseDescription = DescGpa) => prereqs = Returned(<<Math097>>)

IsSortedStrs(l) == \A m, n \in DOMAIN l : m < n => ~SeqLess(l[n], l[m])
HasNoSpace(l) == \A n \in DOMAIN l : \A j \in DOMAIN l[n] : ~IsSpace(l[n][j])
HasNoRepeat(l) == \A m, n \in DOMAIN l : m # n => l[m] # l[n]

\* C8, as stated: the list parse_prerequisites returns is sorted, has no space
\* in any element, and names no prerequisite twice.
C8_SortedSpacelessDeduplicated ==
  (ParseDone /\ prereqs.exc = "none") =>
    IsSortedStrs(prereqs.val) /\ HasNoSpace(prereqs.val) /\ HasNoRepeat(prereqs.val)

\* C8, amended: the list parse_prerequisites returns is sorted
\* lexicographically and has no space in any element; a course named twice in
\* the clause appears twice in it.
C8_SortedSpaceless ==
  (ParseDone /\ prereqs.exc = "none") =>
    IsSortedStrs(prereqs.val) /\ HasNoSpace(prereqs.val)

\* C8: a description that names MATH 098 before engl& 101 has been parsed, and
\* the list holds ENGL&101 before MATH098.
C8_Witness ==
  /\ ParseDone
  /\ courseDescription = PrereqMark \o Str(<<" ", "M", "A", "T", "H", " ", "0", "9", "8">>)
                     \o Str(<<" ", "e", "n", "g", "l", "&", " ", "1", "0", "1">>)
  /\ prereqs = Returned(<<EnglAmp \o Str(<<"1", "0", "1">>), Math098>>)

\* C9, as stated: parse_prerequisites raises no error, whatever the
\* description, "Coreqs:" before "Prereq:" included.
C9_NeverRaises == ParseDone => prereqs.exc = "none"

\* The text holds the characters of "Prereq:" in a row somewhere.
HasPrereqMark(text) ==
  \E n \in 1 .. Len(text) :
    /\ n + Len(PrereqMark) - 1 <= Len(text)
    /\ \A j \in 1 .. Len(PrereqMark) : text[n + j - 1] = PrereqMark[j]

\* C13: on a description that does not hold the marker "Prereq:", the empty
\* text and "No prerequisites." among them, whatever course references or
\* other markers it holds, parse_prerequisites returns the empty list.
C13_NoMarkerNoPrerequisites ==
  ParseDone =>
    /\ ~HasPrereqMark(courseDescription) => prereqs = Returned(<<>>)
    /\ courseDescription \in {<<>>, DescNone} => prereqs = Returned(<<>>)

\* C13: a description that names a course after "Coreqs:" and has no
\* "Prereq:" has been parsed.
C13_Witness ==
  /\ ParseDone
  /\ courseDescription = CoreqsMark \o Str(<<" ", "M", "A", "T", "H", " ", "0", "9", "8">>) \o Dot
  /\ prereqs = Returned(<<>>)


(***************************************************************************)
(* export_courses on its own: the collections it is applied to             *)
(***************************************************************************)

\* The most courses a generated collection holds.
MaxGiven == 3

Central == Str(<<"C", "e", "n", "t", "r", "a", "l">>)
North == Str(<<"N", "o", "r", "t", "h">>)
MathAmp == Str(<<"M", "A", "T", "H", "&">>)
Engl == Str(<<"E", "N", "G", "L">>)
Precalculus == Str(<<"P", "r", "e", "c", "a", "l", "c", "u", "l", "u", "s">>)
Algebra == Str(<<"A", "l", "g", "e", "b", "r", "a">>)
Composition == Str(<<"C", "o", "m", "p", "o", "s", "i", "t", "i", "o", "n">>)
TagNS == Str(<<"N", "S">>)
TagQSR == Str(<<"Q", "S", "R">>)
\* A name with the delimiter and the quote character in it: Honors, "B"
HonorsB == Str(<<"H", "o", "n", "o", "r", "s", ",", " ", "\"", "B", "\"">>)
Five == [num |-> 5, den |-> 1]
TwoAndHalf == [num |-> 25, den |-> 10]

\* The courses collections are drawn from: two institutions, codes whose
\* order as strings is not their order as numbers, and courses that agree on
\* the key and differ in a later field, and a course whose name, tags and
\* prerequisites all bring commas into its row.
CoursePool ==
  { Course(Central, MathAmp, Str(<<"1", "4", "1">>), Precalculus, Five, <<>>, <<Math098>>),
    Course(Central, MathAmp, Str(<<"1", "4", "1">>), Algebra, Five, <<TagNS>>, <<>>),
    Course(Central, MathAmp, Str(<<"1", "4", "1">>), Algebra, TwoAndHalf, <<TagNS, TagQSR>>, <<>>),
    Course(Central, MathAmp, Str(<<"9", "8">>), Algebra, Five, <<>>, <<>>),
    Course(Central, Engl, Str(<<"1", "0", "1">>), Composition, Five, <<TagNS>>, <<>>),
    Course(North, Engl, Str(<<"1", "0", "1">>), Composition, Five, <<>>, <<Math097, Math098>>),
    Course(North, MathAmp, Str(<<"9", "8">>), HonorsB, TwoAndHalf, <<TagNS, TagQSR>>,
           <<Math097, Math098>>) }

RECURSIVE ListsUpTo(_)
ListsUpTo(n) ==
  IF n = 0 THEN {<<>>}
  ELSE LET shorter == ListsUpTo(n - 1)
       IN  shorter \cup {Append(l, c) : l \in shorter, c \in CoursePool}

InitExport ==
  /\ pc = "export_call"
  /\ given \in ListsUpTo(MaxGiven)
  /\ written = <<>>
  /\ output = <<>>
  /\ CrawlIdle
  /\ ParseIdle

\* export_courses(courses, output)
ExportCourses ==
  /\ pc = "export_call"
  /\ written' = SortedCourses(given)
  /\ output' = export_courses(given)
  /\ pc' = "export_done"
  /\ UNCHANGED <<given, crawlVars, parseVars>>

NextExport == ExportCourses

SpecExport == InitExport /\ [][NextExport]_vars

(***************************************************************************)
(* Claims about export_courses (checked under SpecExport)                  *)
(***************************************************************************)

\* a < b for two keys, field by field.
KeyLess(a, b) ==
  \/ SeqLess(a[1], b[1])
  \/ a[1] = b[1] /\ SeqLess(a[2], b[2])
  \/ a[1] = b[1] /\ a[2] = b[2] /\ SeqLess(a[3], b[3])

\* The number of times c occurs in the list l.
Occurrences(l, c) == Cardinality({n \in DOMAIN l : l[n] = c})

\* C10: export_courses writes the header row first, then one row per course of
\* the collection, in ascending order of the whole tuple whatever the order of
\* insertion; when no two courses of the collection share a key, the rows are
\* strictly ascending by (college, department, code).
C10_RowsAscending ==
  pc = "export_done" =>
    /\ Len(output) = Len(given) + 1
    /\ output[1] = Header
    /\ Len(written) = Len(given)
    /\ \A c \in CoursePool : Occurrences(written, c) = Occurrences(given, c)
    /\ \A n \in DOMAIN written : output[n + 1] = Row(written[n])
    /\ \A m, n \in DOMAIN written : m < n => ~CourseLess(written[n], written[m])
    /\ (\A m, n \in DOMAIN given : m # n => CourseKey(given[m]) # CourseKey(given[n]))
         => \A m, n \in DOMAIN written :
              m < n => KeyLess(CourseKey(written[m]), CourseKey(written[n]))

\* C10: three courses with three keys were handed over in descending order
\* and have been written.
C10_Witness ==
  /\ pc = "export_done"
  /\ Len(given) = 3
  /\ \A m, n \in DOMAIN given : m < n => KeyLess(CourseKey(given[n]), CourseKey(given[m]))
  /\ Len(output) = 4

\* Re-import: the lines of the text, the text being cut at every line
\* terminator (what follows the last one is no line).
LinesOf(text) ==
  LET parts == Split(text, CRLF) IN SubSeq(parts, 1, Len(parts) - 1)

\* The data rows of the text split into fields at every comma.
DataRows(text) ==
  LET lines == LinesOf(text)
  IN  [n \in 1 .. (Len(lines) - 1) |-> Split(lines[n + 1], Comma)]

\* The first three fields of a row.
TripleOf(fields) == <<fields[1], fields[2], fields[3]>>

\* No two courses of the list share (college, department, code).
Deduplicated(l) ==
  \A m, n \in DOMAIN l : m # n => CourseKey(l[m]) # CourseKey(l[n])

\* C12: for a collection with one record per (college, department, code),
\* the text export_courses leaves in the output, cut into lines and its data
\* lines split at the commas, has one data row per record, and the first
\* three fields of the rows are exactly the triples of the collection (row n
\* is that of the n-th course in sorted order), tags and prerequisites being
\* one comma-joined field each.
C12_RoundTripTriples ==
  (pc = "export_done" /\ Deduplicated(given)) =>
    LET rows == DataRows(getvalue(output))
    IN  /\ Len(LinesOf(getvalue(output))) = Len(given) + 1
        /\ LinesOf(getvalue(output))[1] = Join(Header)
        /\ Len(rows) = Len(given)
        /\ \A n \in DOMAIN rows : Len(rows[n]) >= 7
        /\ \A n \in DOMAIN rows : TripleOf(rows[n]) = CourseKey(written[n])
        /\ {TripleOf(rows[n]) : n \in DOMAIN rows}
             = {CourseKey(given[n]) : n \in DOMAIN given}
        /\ \A n \in DOMAIN rows :
             /\ output[n + 1][6] = Join(written[n].tags)
             /\ output[n + 1][7] = Join(written[n].prerequisites)

\* C12: three courses with three keys have been exported, one of them with
\* several tags, several prerequisites and a name that had to be quoted.
C12_Witness ==
  /\ pc = "export_done"
  /\ Len(given) = 3
  /\ Deduplicated(given)
  /\ \E n \in DOMAIN given :
       /\ Len(given[n].tags) >= 2
       /\ Len(given[n].prerequisites) >= 2
       /\ CsvField(given[n].name) # given[n].name

====
